---- MODULE Spec2Model ----
(***************************************************************************)
(* Model of nodes.py: the URL-to-local-file resolver (get_lora_from_url    *)
(* and its helpers), alone and with two callers at a time, the LoRA loader *)
(* nodes that keep one loaded payload, and the padding, multiple-of and    *)
(* ramp nodes.                                                             *)
(*                                                                         *)
(* Strings are sequences of tokens.  A token is an indivisible piece of    *)
(* text ("https://", "huggingface.co", "/", "blob", ".safetensors", ...);  *)
(* the tokens are chosen so that every pattern the code searches for       *)
(* ('/blob/', '?download=true', 'modelVersionId=', '&', '?', '/',          *)
(* 'SafeTensor', 'safetensors', the host names) is a whole number of       *)
(* tokens, so the code's substring operations are exact on token           *)
(* sequences.  A filesystem path is a sequence of components, each a       *)
(* string (token sequence).                                                *)
(***************************************************************************)
EXTENDS Integers, Sequences, FiniteSets, TLC

VARIABLES
    ref,          \* the reference (URL string) this run resolves
    ref2,         \* a second reference of the run (a canonical marketplace URL)
    dirs,         \* directories that exist, as paths relative to os.getcwd()
    files,        \* files that exist: path -> content
    api_key,      \* os.environ CIVITAI_API_KEY, or Unset
    lastCall,     \* what the latest get_lora_from_url call did
    prevCall,     \* what the call before it did
    firstPath,    \* url -> the path get_lora_from_url first returned for it, or NoPath
    firstKey,     \* url -> the api_key at that first successful resolution
    loaded_lora,      \* per loader node: self.loaded_lora
    loaded_lora_path, \* per loader node: self.loaded_lora_path
    lastLoad,     \* what the latest load_lora invocation did
    padIn,        \* ImagePaddingAdvanced.run: the arguments
    padOut,       \* ImagePaddingAdvanced.run: the result
    rampIn,       \* FluxReduxFloatRamp.get_value: the arguments of the run's invocations
    self_i,       \* the FluxReduxFloatRamp instance's attribute i, or Absent
    rampCalls,    \* how many times get_value was invoked on the instance
    rampOut,      \* what the latest get_value invocation returned
    cropIn,       \* ImageToMultipleOf.run: the arguments
    cropOut,      \* ImageToMultipleOf.run: the result
    pc,           \* per concurrent caller of get_lora_from_url: where it is
    local         \* per concurrent caller: its local variables

vars == <<ref, ref2, dirs, files, api_key, lastCall, prevCall, firstPath, firstKey,
          loaded_lora, loaded_lora_path, lastLoad, padIn, padOut,
          rampIn, self_i, rampCalls, rampOut, cropIn, cropOut, pc, local>>

resolverVars == <<ref, ref2, dirs, files, api_key, lastCall, prevCall, firstPath, firstKey>>
loaderVars == <<loaded_lora, loaded_lora_path, lastLoad>>
padVars == <<padIn, padOut>>
rampVars == <<rampIn, self_i, rampCalls, rampOut>>
cropVars == <<cropIn, cropOut>>
raceVars == <<pc, local>>
\* everything but the resolver's and the loaders' state
restVars == <<padVars, rampVars, cropVars, raceVars>>

(***************************************************************************)
(* Bounds                                                                  *)
(***************************************************************************)
MaxSub == 2        \* most intermediate path segments of a hub URL
MaxDim == 4        \* largest source image side (pixels)
MaxTarget == 6     \* largest padding target side (pixels)

(***************************************************************************)
(* Python string operations on token sequences                             *)
(***************************************************************************)
Last(s) == s[Len(s)]

\* str.lower(): only the tokens that have upper-case letters change
LowerTok(t) ==
    CASE t = ".SAFETENSORS" -> ".safetensors"
      [] t = "SafeTensor" -> "safetensor"
      [] t = "format=SafeTensor" -> "format=safetensor"
      [] t = "modelVersionId=" -> "modelversionid="
      [] t = "modelVersionId" -> "modelversionid"
      [] t = "type=Model" -> "type=model"
      [] t = "ComfyUI" -> "comfyui"
      [] OTHER -> t

lower(s) == [i \in 1..Len(s) |-> LowerTok(s[i])]

IsSpace(t) == t = " "

RECURSIVE lstrip(_)
lstrip(s) == IF s # <<>> /\ IsSpace(Head(s)) THEN lstrip(Tail(s)) ELSE s

RECURSIVE rstrip(_)
rstrip(s) == IF s # <<>> /\ IsSpace(Last(s)) THEN rstrip(SubSeq(s, 1, Len(s) - 1)) ELSE s

\* str.strip()
strip(s) == rstrip(lstrip(s))

\* s.startswith(p), s.endswith(p) for a token sequence p
startswith(s, p) == Len(s) >= Len(p) /\ SubSeq(s, 1, Len(p)) = p
endswith(s, p) == Len(s) >= Len(p) /\ SubSeq(s, Len(s) - Len(p) + 1, Len(s)) = p

\* url.startswith("http"): the first token begins with the letters http
startswith_http(s) == s # <<>> /\ Head(s) \in {"http://", "https://"}

\* s.endswith("safetensors"): the last token ends with these letters
endswith_safetensors(s) == s # <<>> /\ Last(s) \in {".safetensors", "safetensors"}

\* "<text>" in s, for a text that lies inside single tokens
contains(s, toks) == \E i \in 1..Len(s) : s[i] \in toks

HasHuggingface(s) == contains(s, {"huggingface.co"})
HasCivitai(s) == contains(s, {"civitai.com"})
HasModelVersionId(s) == contains(s, {"modelVersionId=", "modelVersionId"})
HasSafeTensor(s) == contains(s, {"SafeTensor", "format=SafeTensor"})

\* s.replace(pat, rep): every non-overlapping occurrence, left to right
RECURSIVE replace(_, _, _)
replace(s, pat, rep) ==
    IF Len(s) < Len(pat) THEN s
    ELSE IF startswith(s, pat)
         THEN rep \o replace(SubSeq(s, Len(pat) + 1, Len(s)), pat, rep)
         ELSE <<Head(s)>> \o replace(Tail(s), pat, rep)

\* s.split(sep) for a one-token separator: the list of the pieces
RECURSIVE split(_, _)
split(s, sep) ==
    IF \A i \in 1..Len(s) : s[i] # sep THEN <<s>>
    ELSE LET k == CHOOSE i \in 1..Len(s) : s[i] = sep /\ \A j \in 1..(i - 1) : s[j] # sep
         IN <<SubSeq(s, 1, k - 1)>> \o split(SubSeq(s, k + 1, Len(s)), sep)

\* sep.join(parts)
RECURSIVE join(_, _)
join(parts, sep) ==
    IF parts = <<>> THEN <<>>
    ELSE IF Len(parts) = 1 THEN parts[1]
    ELSE parts[1] \o <<sep>> \o join(Tail(parts), sep)

(***************************************************************************)
(* The filesystem and the environment                                      *)
(***************************************************************************)
Unset == "<unset>"            \* CIVITAI_API_KEY not in os.environ
None == <<"<None>">>          \* Python's None where a string is expected
NoPath == <<>>                \* no path was returned

\* os.path.exists(p): a directory or a file
exists(d, f, p) == p \in d \/ p \in DOMAIN f

\* the directories os.makedirs(p, exist_ok=True) leaves existing
makedirs(d, p) == d \cup {SubSeq(p, 1, n) : n \in 1..Len(p)}

\* os.path.dirname(p)
dirname(p) == SubSeq(p, 1, Len(p) - 1)

\* f with path p holding content c (open(p, 'wb'); write(c))
WriteFile(f, p, c) == [q \in DOMAIN f \cup {p} |-> IF q = p THEN c ELSE f[q]]

\* find_or_create_cache(): the cache root, and the directories afterwards
find_or_create_cache(d, f) ==
    LET cwd0 == <<>>
        cwd1 == IF exists(d, f, cwd0 \o <<<<"ComfyUI">>>>) THEN cwd0 \o <<<<"ComfyUI">>>> ELSE cwd0
        cwd2 == IF exists(d, f, cwd1 \o <<<<"models">>>>) THEN cwd1 \o <<<<"models">>>> ELSE cwd1
        cache == cwd2 \o <<<<"huggingface_cache">>>>
    IN [path |-> cache,
        dirs |-> IF ~exists(d, f, cache) THEN d \cup {cache} ELSE d]

\* get_filename_from_url(url, extension): "<md5 hex digest of url>.<extension>".
\* The digest is kept symbolic: the tagged text it was computed from, so two
\* digests are equal exactly when the hashed texts are.
get_filename_from_url(url, extension) == <<"md5:">> \o url \o <<".", extension>>

\* (variant: the body is written before the status is looked at)
download_file_unchecked(url, filename, d, f, resp) ==
    LET d1 == makedirs(d, dirname(filename))
    IN [outcome |-> IF resp.status = 200 THEN "ok" ELSE "Exception", dirs |-> d1,
        files |-> WriteFile(f, filename, resp.content), gets |-> <<url>>]

\* download_file(url, filename) with the response the server gives
download_file(url, filename, d, f, resp) ==
    LET d1 == makedirs(d, dirname(filename))
    IN IF resp.status = 200
       THEN [outcome |-> "ok", dirs |-> d1, files |-> WriteFile(f, filename, resp.content),
             gets |-> <<url>>]
       ELSE [outcome |-> "Exception", dirs |-> d1, files |-> f, gets |-> <<url>>]

\* hf_hub_download(repo_id, filename, subfolder, cache_dir): the hub client's
\* own cache layout; on success the file is in the hub cache
hub_path(repo_id, filename, subfolder, cache_dir) ==
    cache_dir \o <<<<"models--">> \o repo_id, <<"snapshots">>>>
              \o (IF subfolder = None THEN <<>> ELSE <<subfolder>>)
              \o <<filename>>

hf_hub_download(repo_id, filename, subfolder, cache_dir, d, f, hubok) ==
    LET p == hub_path(repo_id, filename, subfolder, cache_dir)
        call == [repo_id |-> repo_id, filename |-> filename, subfolder |-> subfolder,
                 cache_dir |-> cache_dir]
    IN IF hubok
       THEN [outcome |-> "ok", path |-> p, dirs |-> makedirs(d, dirname(p)),
             files |-> IF p \in DOMAIN f THEN f ELSE WriteFile(f, p, "hub"),
             hubcalls |-> <<call>>]
       ELSE [outcome |-> "HubError", path |-> NoPath, dirs |-> d, files |-> f,
             hubcalls |-> <<call>>]

(***************************************************************************)
(* get_lora_from_url                                                       *)
(***************************************************************************)
\* a call that raised `kind` before touching anything
Raise(kind, branch, d, f) ==
    [outcome |-> kind, branch |-> branch, path |-> NoPath, target |-> NoPath, dirs |-> d,
     files |-> f, gets |-> <<>>, hubcalls |-> <<>>]

\* url.replace('/blob/', '/resolve/')
BlobToResolve(url) == replace(url, <<"/", "blob", "/">>, <<"/", "resolve", "/">>)

\* the subfolder argument derived from the path segments
HubSubfolder(parts) ==
    LET subfolder_length == Len(parts) - 6
    IN IF subfolder_length > 0 THEN join(SubSeq(parts, 6, Len(parts) - 1), "/") ELSE None

HubBranch(url0, d, f, hubok) ==
    LET url1 == IF endswith(url0, <<"?", "download=true">>)
                THEN SubSeq(url0, 1, Len(url0) - 2) ELSE url0
        url == BlobToResolve(url1)
        parser_string == replace(replace(url, <<"http://">>, <<>>), <<"https://">>, <<>>)
        parts == split(parser_string, "/")
    IN IF ~endswith_safetensors(lower(url)) THEN Raise("ValueError", "hub", d, f)
       ELSE IF Len(parts) < 3 THEN Raise("IndexError", "hub", d, f)
       ELSE LET repo_id == parts[2] \o <<"/">> \o parts[3]
                filename == Last(parts)
                subfolder == HubSubfolder(parts)
                cache == find_or_create_cache(d, f)
                r == hf_hub_download(strip(repo_id), strip(filename), subfolder,
                                     cache.path, cache.dirs, f, hubok)
            IN [outcome |-> r.outcome, branch |-> "hub", path |-> r.path, target |-> NoPath,
                dirs |-> r.dirs, files |-> r.files, gets |-> <<>>, hubcalls |-> r.hubcalls]

\* the URL the marketplace branch validates and hashes
CivitaiCanonical(model_version_id) ==
    <<"https://", "civitai.com", "/", "api", "/", "download", "/", "models", "/">>
        \o model_version_id \o <<"?", "type=Model", "&", "format=SafeTensor">>

\* api_key.strip() == ""
IsBlankKey(key) == key \in {"", " "}

\* the request URL: the key is appended when it is set and not blank
WithToken(url, key) ==
    IF key # Unset /\ ~IsBlankKey(key) THEN url \o <<"&token=", key>> ELSE url

\* (variant: the filename is computed after the key was appended)
HashedUrlAfterToken(url, key) == WithToken(url, key)

\* the text the cache filename is computed from, given the validated url and the key
HashedUrl(url, key) == url

\* (variant: no existence check, every call downloads)
FetchAlways(branch, subdir, hashed, request, d, f, resp) ==
    LET save_filename == get_filename_from_url(hashed, "safetensors")
        cache == find_or_create_cache(d, f)
        lora_path == cache.path \o <<<<subdir>>, save_filename>>
        r == download_file(request, lora_path, cache.dirs, f, resp)
    IN [outcome |-> r.outcome, branch |-> branch,
        path |-> IF r.outcome = "ok" THEN lora_path ELSE NoPath,
        target |-> lora_path, dirs |-> r.dirs, files |-> r.files, gets |-> r.gets,
        hubcalls |-> <<>>]

\* (variant: a zero-length file at the cache path is downloaded again)
FetchIfAbsentOrEmpty(branch, subdir, hashed, request, d, f, resp) ==
    LET save_filename == get_filename_from_url(hashed, "safetensors")
        cache == find_or_create_cache(d, f)
        lora_path == cache.path \o <<<<subdir>>, save_filename>>
    IN IF ~exists(cache.dirs, f, lora_path) \/ (lora_path \in DOMAIN f /\ f[lora_path] = "")
       THEN LET r == download_file(request, lora_path, cache.dirs, f, resp)
            IN [outcome |-> r.outcome, branch |-> branch,
                path |-> IF r.outcome = "ok" THEN lora_path ELSE NoPath,
                target |-> lora_path, dirs |-> r.dirs, files |-> r.files, gets |-> r.gets, hubcalls |-> <<>>]
       ELSE [outcome |-> "ok", branch |-> branch, path |-> lora_path, target |-> lora_path,
             dirs |-> cache.dirs, files |-> f, gets |-> <<>>, hubcalls |-> <<>>]

\* existence check, download if absent
FetchIfAbsent(branch, subdir, hashed, request, d, f, resp) ==
    LET save_filename == get_filename_from_url(hashed, "safetensors")
        cache == find_or_create_cache(d, f)
        lora_path == cache.path \o <<<<subdir>>, save_filename>>
    IN IF ~exists(cache.dirs, f, lora_path)
       THEN LET r == download_file(request, lora_path, cache.dirs, f, resp)
            IN [outcome |-> r.outcome, branch |-> branch,
                path |-> IF r.outcome = "ok" THEN lora_path ELSE NoPath,
                target |-> lora_path, dirs |-> r.dirs, files |-> r.files, gets |-> r.gets, hubcalls |-> <<>>]
       ELSE [outcome |-> "ok", branch |-> branch, path |-> lora_path, target |-> lora_path,
             dirs |-> cache.dirs, files |-> f, gets |-> <<>>, hubcalls |-> <<>>]

\* (variant: the version id is not cut at the next '&')
CivitaiRewriteKeepsTail(url) ==
    IF HasModelVersionId(url)
    THEN LET pieces == split(url, "modelVersionId=")
         IN IF Len(pieces) < 2 THEN <<"IndexError">>
            ELSE CivitaiCanonical(pieces[2])
    ELSE url

\* the url after the modelVersionId rewrite (<<"IndexError">> when the text
\* 'modelVersionId=' is missing and split(...)[1] is out of range)
CivitaiRewrite(url) ==
    IF HasModelVersionId(url)
    THEN LET pieces == split(url, "modelVersionId=")
         IN IF Len(pieces) < 2 THEN <<"IndexError">>
            ELSE CivitaiCanonical(split(pieces[2], "&")[1])
    ELSE url

CivitaiBranch(url0, d, f, key, resp) ==
    LET url == CivitaiRewrite(url0)
    IN IF url = <<"IndexError">> THEN Raise("IndexError", "civitai", d, f)
       ELSE IF ~HasSafeTensor(url) THEN Raise("ValueError", "civitai", d, f)
       ELSE FetchIfAbsent("civitai", "civitai", HashedUrl(url, key), WithToken(url, key),
                          d, f, resp)

\* (variant: the suffix test reads the whole url, query string included)
GeneralBranchWholeUrl(url, d, f, resp) ==
    IF ~endswith_safetensors(lower(url)) THEN Raise("ValueError", "general", d, f)
    ELSE FetchIfAbsent("general", "general", url, url, d, f, resp)

GeneralBranch(url, d, f, resp) ==
    IF ~endswith_safetensors(split(lower(url), "?")[1]) THEN Raise("ValueError", "general", d, f)
    ELSE FetchIfAbsent("general", "general", url, url, d, f, resp)

\* which strategy the cascade of substring tests picks
Dispatch(url) ==
    IF HasHuggingface(url) THEN "hub"
    ELSE IF HasCivitai(url) THEN "civitai"
    ELSE "general"

get_lora_from_url(url0, d, f, key, resp, hubok) ==
    LET url == strip(url0)
    IN IF url = <<>> THEN Raise("ValueError", "none", d, f)
       ELSE IF ~startswith_http(url) THEN Raise("ValueError", "none", d, f)
       ELSE IF Dispatch(url) = "hub" THEN HubBranch(url, d, f, hubok)
       ELSE IF Dispatch(url) = "civitai" THEN CivitaiBranch(url, d, f, key, resp)
       ELSE GeneralBranch(url, d, f, resp)

(***************************************************************************)
(* The references the runs resolve                                         *)
(***************************************************************************)
\* "/a/b/c" from <<a, b, c>>
RECURSIVE Slashed(_)
Slashed(segs) == IF segs = <<>> THEN <<>> ELSE <<"/", Head(segs)>> \o Slashed(Tail(segs))

\* all sequences over S of length at most n
RECURSIVE SeqsUpTo(_, _)
SeqsUpTo(S, n) ==
    IF n = 0 THEN {<<>>}
    ELSE LET shorter == SeqsUpTo(S, n - 1)
         IN shorter \cup {Append(q, x) : q \in shorter, x \in S}

SegNames == {"s", "blob"}
Subfolders == SeqsUpTo(SegNames, MaxSub)
Markers == {"resolve", "blob"}
Versions == {<<"1">>, <<"2">>}

HubUrl(segs, file, tail) == <<"https://", "huggingface.co">> \o Slashed(segs) \o <<"/">> \o file \o tail

\* https://huggingface.co/<owner>/<repo>/(resolve|blob)/<revision>/<s1>/.../<sN>/<file>.safetensors
HubShaped(owner, repo, marker, subs) ==
    HubUrl(<<owner, repo, marker, "main">> \o subs, <<"f", ".safetensors">>, <<>>)

HubShapedURLS == {HubShaped("o", "r", m, subs) : m \in Markers, subs \in Subfolders}
                     \cup {HubShaped("blob", "r", "resolve", <<>>)}

\* hub URLs that lack the owner/repo path segments
HubShortURLS == {HubUrl(<<>>, <<"f", ".safetensors">>, <<>>),
                 HubUrl(<<"o">>, <<"f", ".safetensors">>, <<>>),
                 <<"https://", "huggingface.co">>}

HubOtherURLS ==
    {HubShaped("o", "r", "resolve", <<"s">>) \o <<"?", "download=true">>,
     HubUrl(<<"o", "r", "resolve", "main">>, <<"f", ".SAFETENSORS">>, <<>>),
     HubUrl(<<"o", "r", "resolve", "main">>, <<"f", ".bin">>, <<>>),
     HubUrl(<<"o", "r", "resolve", "main">>, <<"f", ".bin">>, <<"?", "download=true">>),
     HubUrl(<<"o", "r", "resolve", "main">>, <<"f", ".bin">>, <<"?", "x=", "safetensors">>),
     HubUrl(<<"o", "r", "resolve", "main">>, <<"f", ".safetensors">>, <<"?", "x=", "1">>),
     <<"http://", "huggingface.co", "/", "o", "/", "r", "/", "resolve", "/", "main", "/",
       "f", ".safetensors">>}

\* the marketplace's download-by-version-id URL, as a user pastes it
CanonUrl(V) ==
    <<"https://", "civitai.com", "/", "api", "/", "download", "/", "models", "/">> \o V
        \o <<"?", "type=Model", "&", "format=SafeTensor">>

\* a marketplace model page URL carrying modelVersionId=V
MvidUrl(V, before, after) ==
    <<"https://", "civitai.com", "/", "models", "/", "111", "?">> \o before
        \o <<"modelVersionId=">> \o V \o after

\* a model page URL that names modelVersionId but gives it no value
MvidNoValueUrl ==
    <<"https://", "civitai.com", "/", "models", "/", "111", "?", "type=Model", "&", "x=", "1",
      "&", "y=", "2", "&", "modelVersionId">>

MvidURLS == {MvidUrl(V, b, a) : V \in Versions, b \in {<<>>, <<"x=", "1", "&">>},
                                a \in {<<>>, <<"&", "x=", "1">>}}
CanonURLS == {CanonUrl(V) : V \in Versions}

CivitaiOtherURLS ==
    {<<"https://", "civitai.com", "/", "api", "/", "download", "/", "models", "/", "1">>,
     <<"https://", "civitai.com", "/", "api", "/", "download", "/", "models", "/", "1",
       "?", "type=Model", "&", "format=PickleTensor">>,
     <<"https://", "civitai.com", "/", "f", ".safetensors">>,
     MvidNoValueUrl,
     <<" ">> \o CanonUrl(<<"1">>) \o <<" ">>}

GenericUrl(file, tail) == <<"https://", "example.com", "/">> \o file \o tail

GenericURLS ==
    {GenericUrl(<<"f", e>>, t) : e \in {".safetensors", ".SAFETENSORS", ".bin"},
                                 t \in {<<>>, <<"?", "x=", "1">>, <<"?", "x=", "safetensors">>}}
        \cup {<<"https://", "example.com", "/", "huggingface.co", "/", "f", ".safetensors">>,
              <<"https://", "example.com", "/", "f", ".bin", "?", "ref=", "huggingface.co">>,
              <<"https://", "example.com", "/", "civitai.com", "/", "f", ".safetensors">>,
              <<"https://", "example.com", "/", "f", ".safetensors", "?", "fmt=", "SafeTensor",
                "&", "ref=", "civitai.com">>}

EmptyURLS == {<<>>, <<" ">>, <<" ", " ">>}
NonHttpURLS == {<<"ftp://", "example.com", "/", "f", ".safetensors">>,
                <<"example.com", "/", "f", ".safetensors">>,
                <<"huggingface.co", "/", "o", "/", "r", "/", "resolve", "/", "main", "/",
                  "f", ".safetensors">>}

URLS == HubShapedURLS \cup HubShortURLS \cup HubOtherURLS \cup MvidURLS \cup CanonURLS
            \cup CivitaiOtherURLS \cup GenericURLS \cup EmptyURLS \cup NonHttpURLS

KEYS == {Unset, " ", "k1", "k2"}
STATUSES == {200, 206, 404}
CONTENTS == {"b1", "b2"}
RESPONSES == [status : STATUSES, content : CONTENTS]

ComfyUI == <<"ComfyUI">>
models == <<"models">>
InitDirs == {{}, {<<ComfyUI>>}, {<<models>>}, {<<ComfyUI>>, <<ComfyUI, models>>}}

NoFiles == [p \in {} |-> ""]

NoCall == [url |-> <<>>, status |-> 0, branch |-> "none", outcome |-> "none",
           path |-> NoPath, target |-> NoPath, gets |-> <<>>, hubcalls |-> <<>>, made |-> FALSE,
           wrote |-> FALSE, hit |-> FALSE, rekeyed |-> FALSE]

NoPrev == [url |-> <<>>, outcome |-> "none", path |-> NoPath]

\* the loader node instances: one LoraLoaderFromURL, one HFHubLoraLoader
Nodes == {"url", "hf"}
NonePayload == <<>>           \* self.loaded_lora is None
NoOut == [model |-> <<>>, clip |-> <<>>]

NoLoad == [node |-> "none", url |-> <<>>, model |-> "", clip |-> "", strength_model |-> 0,
           strength_clip |-> 0, outcome |-> "none", held |-> "n/a", reads |-> <<>>,
           resolved |-> FALSE, touched |-> FALSE, changed |-> FALSE, out |-> NoOut]

NoPadIn == [orig_height |-> 0, orig_width |-> 0, width |-> 0, height |-> 0, method |-> "none"]
NoPadOut == [outcome |-> "none", same |-> FALSE, h |-> 0, w |-> 0, top |-> 0, left |-> 0]

Absent == "<absent>"          \* the instance has no such attribute
NoRampIn == [start |-> 0, end |-> 0, steps_threshold |-> 0, ramp_type |-> "none"]
NoRampOut == [current_step |-> 0, value |-> [num |-> 0, den |-> 1]]

NoCropIn == [height |-> 0, width |-> 0, multiple_of |-> 0, method |-> "none"]
NoCropOut == [outcome |-> "none", h |-> 0, w |-> 0, top |-> 0, left |-> 0]

\* the callers that resolve a reference at the same time
Callers == {"A", "B"}
NoLocal == [lora_path |-> NoPath, content |-> <<>>, result |-> NoPath]

(***************************************************************************)
(* Specification of the resolver: calls of get_lora_from_url on one        *)
(* reference, under an environment fixed when the process starts.          *)
(***************************************************************************)
\* the padding node has not run
PadIdle == padIn = NoPadIn /\ padOut = NoPadOut
\* the ramp node has not run
RampIdle == rampIn = NoRampIn /\ self_i = Absent /\ rampCalls = 0 /\ rampOut = NoRampOut
\* the multiple-of node has not run
CropIdle == cropIn = NoCropIn /\ cropOut = NoCropOut
\* no concurrent callers
RaceIdle == pc = [c \in Callers |-> "idle"] /\ local = [c \in Callers |-> NoLocal]
\* only the resolver and the loaders run
OthersIdle == PadIdle /\ RampIdle /\ CropIdle /\ RaceIdle

ResolverInit(R1, R2, D) ==
    /\ ref \in R1
    /\ ref2 \in R2
    /\ dirs \in D
    /\ files = NoFiles
    /\ api_key \in KEYS
    /\ lastCall = NoCall
    /\ prevCall = NoPrev
    /\ firstPath = [u \in {ref, ref2} |-> NoPath]
    /\ firstKey = [u \in {ref, ref2} |-> Unset]
    /\ loaded_lora = [n \in Nodes |-> NonePayload]
    /\ loaded_lora_path = [n \in Nodes |-> NoPath]
    /\ lastLoad = NoLoad

Init == ResolverInit(URLS, {<<>>}, InitDirs) /\ OthersIdle

\* the record of one call: its arguments, its result and what it touched
CallRecord(u, r, resp) ==
    [url |-> u,
     status |-> IF r.gets # <<>> THEN resp.status ELSE 0,
     branch |-> r.branch, outcome |-> r.outcome, path |-> r.path, target |-> r.target,
     gets |-> r.gets,
     hubcalls |-> r.hubcalls,
     made |-> r.dirs # dirs,
     wrote |-> r.files # files,
     hit |-> r.outcome = "ok" /\ r.path \in DOMAIN files,
     rekeyed |-> r.outcome = "ok" /\ firstPath[u] # NoPath /\ firstKey[u] # api_key]

\* one call get_lora_from_url(u); the server answers resp, the hub client
\* succeeds or not
Resolve(u, resp, hubok) ==
    LET r == get_lora_from_url(u, dirs, files, api_key, resp, hubok)
        first == r.outcome = "ok" /\ firstPath[u] = NoPath
    IN /\ dirs' = r.dirs
       /\ files' = r.files
       /\ lastCall' = CallRecord(u, r, resp)
       /\ prevCall' = [url |-> lastCall.url, outcome |-> lastCall.outcome,
                       path |-> lastCall.path]
       /\ firstPath' = IF first THEN [firstPath EXCEPT ![u] = r.path] ELSE firstPath
       /\ firstKey' = IF first THEN [firstKey EXCEPT ![u] = api_key] ELSE firstKey
       /\ UNCHANGED <<ref, ref2, api_key>>
       /\ UNCHANGED loaderVars
       /\ UNCHANGED restVars

Next ==
    \E resp \in RESPONSES, hubok \in BOOLEAN : Resolve(ref, resp, hubok)

Spec == Init /\ [][Next]_vars

(***************************************************************************)
(* Specification of the marketplace references: two references of a run,   *)
(* and the API key variable set, changed or removed between calls.         *)
(***************************************************************************)
\* the environment variable is set, changed or removed between calls
SetEnv(k) ==
    /\ k # api_key
    /\ api_key' = k
    /\ UNCHANGED <<ref, ref2, dirs, files, lastCall, prevCall, firstPath, firstKey>>
    /\ UNCHANGED loaderVars
    /\ UNCHANGED restVars

EnvDirs == {{}, {<<ComfyUI>>, <<ComfyUI, models>>}}
EnvRESPONSES == [status : {200, 404}, content : {"b1"}]

InitEnv == ResolverInit(MvidURLS \cup CanonURLS \cup CivitaiOtherURLS, CanonURLS, EnvDirs) /\ OthersIdle

NextEnv ==
    \/ \E u \in {ref, ref2}, resp \in EnvRESPONSES : Resolve(u, resp, TRUE)
    \/ \E k \in KEYS : SetEnv(k)

SpecEnv == InitEnv /\ [][NextEnv]_vars

(***************************************************************************)
(* Specification of the cache entries: resolutions of two references in a  *)
(* cache directory that may hold a file from an earlier run.               *)
(***************************************************************************)
\* the cache path get_lora_from_url computes for u (NoPath when u is rejected
\* or goes to the hub client)
CachePath(u, d, key) ==
    get_lora_from_url(u, d, NoFiles, key, [status |-> 200, content |-> "b1"], TRUE).target

\* what an earlier run may have left in a cache file: nothing (zero length),
\* the beginning of a body, a whole body
LEFTOVERS == {"", "part", "old"}

CacheURLS ==
    {GenericUrl(<<"f", ".safetensors">>, <<>>),
     GenericUrl(<<"f", ".SAFETENSORS">>, <<"?", "x=", "1">>),
     GenericUrl(<<"f", ".bin">>, <<>>),
     CanonUrl(<<"1">>),
     MvidUrl(<<"1">>, <<>>, <<"&", "x=", "1">>),
     HubShaped("o", "r", "resolve", <<>>)}
CacheURLS2 == {GenericUrl(<<"f", ".safetensors">>, <<>>), CanonUrl(<<"2">>),
               HubShaped("o", "r", "resolve", <<"s">>)}
CacheRESPONSES == [status : {200, 404}, content : CONTENTS]

InitCache ==
    /\ ref \in CacheURLS
    /\ ref2 \in CacheURLS2
    /\ api_key \in {Unset, "k1"}
    /\ \E d \in EnvDirs :
          LET p == CachePath(ref, d, api_key)
          IN \/ dirs = d /\ files = NoFiles
             \/ /\ p # NoPath
                /\ dirs = makedirs(d, dirname(p))
                /\ \E c \in LEFTOVERS : files = WriteFile(NoFiles, p, c)
    /\ lastCall = NoCall
    /\ prevCall = NoPrev
    /\ firstPath = [u \in {ref, ref2} |-> NoPath]
    /\ firstKey = [u \in {ref, ref2} |-> Unset]
    /\ loaded_lora = [n \in Nodes |-> NonePayload]
    /\ loaded_lora_path = [n \in Nodes |-> NoPath]
    /\ lastLoad = NoLoad
    /\ OthersIdle

NextCache ==
    \E u \in {ref, ref2}, resp \in CacheRESPONSES, hubok \in BOOLEAN : Resolve(u, resp, hubok)

SpecCache == InitCache /\ [][NextCache]_vars

(***************************************************************************)
(* Specification of concurrent callers: two callers run get_lora_from_url  *)
(* on the same marketplace or generic reference at the same time.  Each    *)
(* step is one system call or request of the code; a file's content is a   *)
(* sequence of blocks.                                                     *)
(***************************************************************************)
RaceURLS == {GenericUrl(<<"f", ".safetensors">>, <<>>), CanonUrl(<<"1">>),
             MvidUrl(<<"1">>, <<>>, <<>>)}
\* the bodies the server may answer with
BODIES == {<<"x", "y">>, <<"z">>}
RaceRESPONSES == [status : {200, 404}, content : BODIES]
HfCache == <<"huggingface_cache">>
RaceDirs == {{}, {<<HfCache>>}, {<<ComfyUI>>, <<ComfyUI, models>>},
             {<<ComfyUI>>, <<ComfyUI, models>>, <<ComfyUI, models, HfCache>>}}

\* file.write(new) on a file just opened: the blocks are written from offset 0
\* over whatever the file holds by then
Overlay(old, new) == new \o SubSeq(old, Len(new) + 1, Len(old))

InitRace ==
    /\ ResolverInit(RaceURLS, {<<>>}, RaceDirs)
    /\ PadIdle
    /\ RampIdle
    /\ CropIdle
    /\ pc = [c \in Callers |-> "start"]
    /\ local = [c \in Callers |-> NoLocal]

\* find_or_create_cache() up to its last os.path.exists; the url is validated
\* and the file name hashed before it
FindCache(c) ==
    /\ pc[c] = "start"
    /\ LET p == CachePath(ref, dirs, api_key)
       IN /\ local' = [local EXCEPT ![c].lora_path = p]
          /\ pc' = [pc EXCEPT ![c] = IF exists(dirs, files, dirname(dirname(p)))
                                     THEN "exists" ELSE "mkdir"]
    /\ UNCHANGED <<ref, ref2, dirs, files, api_key, lastCall, prevCall, firstPath, firstKey>>
    /\ UNCHANGED loaderVars
    /\ UNCHANGED <<padVars, rampVars, cropVars>>

\* os.mkdir(huggingface_cache): raises FileExistsError when the directory was
\* made since the check
Mkdir(c) ==
    /\ pc[c] = "mkdir"
    /\ LET cache == dirname(dirname(local[c].lora_path))
       IN IF exists(dirs, files, cache)
          THEN /\ pc' = [pc EXCEPT ![c] = "FileExistsError"]
               /\ UNCHANGED dirs
          ELSE /\ pc' = [pc EXCEPT ![c] = "exists"]
               /\ dirs' = dirs \cup {cache}
    /\ UNCHANGED <<ref, ref2, files, api_key, lastCall, prevCall, firstPath, firstKey, local>>
    /\ UNCHANGED loaderVars
    /\ UNCHANGED <<padVars, rampVars, cropVars>>

\* if not os.path.exists(lora_path): ... ; return lora_path
ExistsCheck(c) ==
    /\ pc[c] = "exists"
    /\ IF exists(dirs, files, local[c].lora_path)
       THEN /\ pc' = [pc EXCEPT ![c] = "returned"]
            /\ local' = [local EXCEPT ![c].result = local[c].lora_path]
       ELSE /\ pc' = [pc EXCEPT ![c] = "makedirs"]
            /\ UNCHANGED local
    /\ UNCHANGED <<ref, ref2, dirs, files, api_key, lastCall, prevCall, firstPath, firstKey>>
    /\ UNCHANGED loaderVars
    /\ UNCHANGED <<padVars, rampVars, cropVars>>

\* download_file: os.makedirs(os.path.dirname(filename), exist_ok=True)
Makedirs(c) ==
    /\ pc[c] = "makedirs"
    /\ dirs' = makedirs(dirs, dirname(local[c].lora_path))
    /\ pc' = [pc EXCEPT ![c] = "get"]
    /\ UNCHANGED <<ref, ref2, files, api_key, lastCall, prevCall, firstPath, firstKey, local>>
    /\ UNCHANGED loaderVars
    /\ UNCHANGED <<padVars, rampVars, cropVars>>

\* download_file: requests.get(url) and the test of the status
Get(c, resp) ==
    /\ pc[c] = "get"
    /\ IF resp.status = 200
       THEN /\ pc' = [pc EXCEPT ![c] = "open"]
            /\ local' = [local EXCEPT ![c].content = resp.content]
       ELSE /\ pc' = [pc EXCEPT ![c] = "Exception"]
            /\ UNCHANGED local
    /\ UNCHANGED <<ref, ref2, dirs, files, api_key, lastCall, prevCall, firstPath, firstKey>>
    /\ UNCHANGED loaderVars
    /\ UNCHANGED <<padVars, rampVars, cropVars>>

\* download_file: open(filename, 'wb') creates the file or cuts it to length 0
Open(c) ==
    /\ pc[c] = "open"
    /\ files' = WriteFile(files, local[c].lora_path, <<>>)
    /\ pc' = [pc EXCEPT ![c] = "write"]
    /\ UNCHANGED <<ref, ref2, dirs, api_key, lastCall, prevCall, firstPath, firstKey, local>>
    /\ UNCHANGED loaderVars
    /\ UNCHANGED <<padVars, rampVars, cropVars>>

\* download_file: file.write(response.content) and the close of the file
Write(c) ==
    /\ pc[c] = "write"
    /\ files' = WriteFile(files, local[c].lora_path,
                          Overlay(files[local[c].lora_path], local[c].content))
    /\ pc' = [pc EXCEPT ![c] = "return"]
    /\ UNCHANGED <<ref, ref2, dirs, api_key, lastCall, prevCall, firstPath, firstKey, local>>
    /\ UNCHANGED loaderVars
    /\ UNCHANGED <<padVars, rampVars, cropVars>>

\* return lora_path, after a download
Return(c) ==
    /\ pc[c] = "return"
    /\ pc' = [pc EXCEPT ![c] = "returned"]
    /\ local' = [local EXCEPT ![c].result = local[c].lora_path]
    /\ UNCHANGED <<ref, ref2, dirs, files, api_key, lastCall, prevCall, firstPath, firstKey>>
    /\ UNCHANGED loaderVars
    /\ UNCHANGED <<padVars, rampVars, cropVars>>

NextRace ==
    \E c \in Callers :
        \/ FindCache(c)
        \/ Mkdir(c)
        \/ ExistsCheck(c)
        \/ Makedirs(c)
        \/ \E resp \in RaceRESPONSES : Get(c, resp)
        \/ Open(c)
        \/ Write(c)
        \/ Return(c)

SpecRace == InitRace /\ [][NextRace]_vars

(***************************************************************************)
(* The LoRA loader nodes: LoraLoaderFromURL and HFHubLoraLoader            *)
(***************************************************************************)
\* comfy.utils.load_torch_file(path): the payload read from the file
PayloadOf(path, content) == Append(path, <<"tensors", content>>)

\* (variant: the identity value of a strength is taken to be 1)
IsNoOpAtOne(strength_model, strength_clip) == strength_model = 1 /\ strength_clip = 1

\* strength_model == 0 and strength_clip == 0
IsNoOp(strength_model, strength_clip) == strength_model = 0 /\ strength_clip = 0

\* (variant: the held path is not reset when the held payload is dropped)
HeldLookupKeepsPath(held_lora, held_path, lora_path) ==
    IF held_lora # NonePayload
    THEN IF held_path = lora_path
         THEN [lora |-> held_lora, loaded_lora |-> held_lora, loaded_lora_path |-> held_path]
         ELSE [lora |-> NonePayload, loaded_lora |-> NonePayload, loaded_lora_path |-> held_path]
    ELSE [lora |-> NonePayload, loaded_lora |-> held_lora, loaded_lora_path |-> held_path]

\* the held payload is reused for the same path and dropped for another one
HeldLookup(held_lora, held_path, lora_path) ==
    IF held_lora # NonePayload
    THEN IF held_path = lora_path
         THEN [lora |-> held_lora, loaded_lora |-> held_lora, loaded_lora_path |-> held_path]
         ELSE [lora |-> NonePayload, loaded_lora |-> NonePayload, loaded_lora_path |-> NoPath]
    ELSE [lora |-> NonePayload, loaded_lora |-> held_lora, loaded_lora_path |-> held_path]

\* the part of load_lora after the path is known: lookup, load if needed, apply
LoadAndApply(held_lora, held_path, lora_path, f, model, clip, loadok, applyok) ==
    LET lk == HeldLookup(held_lora, held_path, lora_path)
        held == IF held_lora = NonePayload THEN "none"
                ELSE IF held_path = lora_path THEN "same" ELSE "other"
    IN IF lk.lora = NonePayload /\ ~loadok
       THEN [outcome |-> "LoadError", held |-> held, reads |-> <<lora_path>>,
             loaded_lora |-> lk.loaded_lora, loaded_lora_path |-> lk.loaded_lora_path,
             out |-> NoOut]
       ELSE LET fresh == lk.lora = NonePayload
                lora == IF fresh THEN PayloadOf(lora_path, f[lora_path]) ELSE lk.lora
            IN [outcome |-> IF applyok THEN "ok" ELSE "ApplyError", held |-> held,
                reads |-> IF fresh THEN <<lora_path>> ELSE <<>>,
                loaded_lora |-> IF fresh THEN lora ELSE lk.loaded_lora,
                loaded_lora_path |-> IF fresh THEN lora_path ELSE lk.loaded_lora_path,
                out |-> IF applyok THEN [model |-> <<model, "lora">>, clip |-> <<clip, "lora">>]
                        ELSE NoOut]

\* the effect of one load_lora invocation on node n, given how the path was
\* obtained (r: the resolver's or the hub client's result)
LoadStep(n, url, model, clip, strength_model, strength_clip, r, loadok, applyok) ==
    IF IsNoOp(strength_model, strength_clip)
    THEN /\ lastLoad' = [node |-> n, url |-> url, model |-> model, clip |-> clip,
                         strength_model |-> strength_model, strength_clip |-> strength_clip,
                         outcome |-> "ok", held |-> "n/a", reads |-> <<>>, resolved |-> FALSE,
                         touched |-> FALSE, changed |-> FALSE,
                         out |-> [model |-> <<model>>, clip |-> <<clip>>]]
         /\ UNCHANGED <<dirs, files, loaded_lora, loaded_lora_path>>
    ELSE IF r.outcome # "ok"
    THEN /\ dirs' = r.dirs
         /\ files' = r.files
         /\ lastLoad' = [node |-> n, url |-> url, model |-> model, clip |-> clip,
                         strength_model |-> strength_model, strength_clip |-> strength_clip,
                         outcome |-> r.outcome, held |-> "n/a", reads |-> <<>>,
                         resolved |-> TRUE, touched |-> r.dirs # dirs \/ r.files # files,
                         changed |-> FALSE, out |-> NoOut]
         /\ UNCHANGED <<loaded_lora, loaded_lora_path>>
    ELSE LET l == LoadAndApply(loaded_lora[n], loaded_lora_path[n], r.path, r.files,
                               model, clip, loadok, applyok)
         IN /\ dirs' = r.dirs
            /\ files' = r.files
            /\ loaded_lora' = [loaded_lora EXCEPT ![n] = l.loaded_lora]
            /\ loaded_lora_path' = [loaded_lora_path EXCEPT ![n] = l.loaded_lora_path]
            /\ lastLoad' = [node |-> n, url |-> url, model |-> model, clip |-> clip,
                            strength_model |-> strength_model, strength_clip |-> strength_clip,
                            outcome |-> l.outcome, held |-> l.held, reads |-> l.reads,
                            resolved |-> TRUE, touched |-> r.dirs # dirs \/ r.files # files,
                            changed |-> l.loaded_lora # loaded_lora[n]
                                        \/ l.loaded_lora_path # loaded_lora_path[n],
                            out |-> l.out]

\* LoraLoaderFromURL.load_lora(model, clip, url, strength_model, strength_clip)
LoraLoaderFromURL_load_lora(model, clip, url, strength_model, strength_clip, resp, hubok, loadok, applyok) ==
    /\ LoadStep("url", url, model, clip, strength_model, strength_clip,
                get_lora_from_url(url, dirs, files, api_key, resp, hubok), loadok, applyok)
    /\ UNCHANGED <<ref, ref2, api_key, lastCall, prevCall, firstPath, firstKey>>
    /\ UNCHANGED restVars

\* subfolder=None if subfolder is None or subfolder.strip() == "" else subfolder.strip()
SubfolderArg(subfolder) == IF strip(subfolder) = <<>> THEN None ELSE strip(subfolder)

\* HFHubLoraLoader.load_lora(model, clip, repo_id, subfolder, filename,
\*                           strength_model, strength_clip)
HFHubLoraLoader_load_lora(model, clip, repo_id, subfolder, filename, strength_model, strength_clip, hubok, loadok, applyok) ==
    /\ LET cache == find_or_create_cache(dirs, files)
           r == hf_hub_download(strip(repo_id), strip(filename), SubfolderArg(subfolder),
                                cache.path, cache.dirs, files, hubok)
       IN LoadStep("hf", <<>>, model, clip, strength_model, strength_clip, r, loadok, applyok)
    /\ UNCHANGED <<ref, ref2, api_key, lastCall, prevCall, firstPath, firstKey>>
    /\ UNCHANGED restVars

LoaderURLS == {GenericUrl(<<"f", ".safetensors">>, <<>>),
               GenericUrl(<<"f", ".bin">>, <<>>),
               HubShaped("o", "r", "resolve", <<>>)}
MODELS == {"m1"}
CLIPS == {"c1"}
STRENGTHS == {0, 1}
REPOS == {<<"o", "/", "r">>}
SUBFOLDERS == {<<>>, <<" ">>, <<"s">>}
FILENAMES == {<<"f", ".safetensors">>}

InitLoader == ResolverInit({<<>>}, {<<>>}, {{}}) /\ api_key = Unset /\ OthersIdle

\* the network answers or not; the payload load or the patching may raise
NetResponse(netok) == [status |-> IF netok THEN 200 ELSE 404, content |-> "b1"]
FAILURES == {"none", "load", "apply"}

NextLoader ==
    \/ \E model \in MODELS, clip \in CLIPS, url \in LoaderURLS, sm \in STRENGTHS,
          sc \in STRENGTHS, netok \in BOOLEAN, fail \in FAILURES :
          LoraLoaderFromURL_load_lora(model, clip, url, sm, sc, NetResponse(netok), netok,
                                      fail # "load", fail # "apply")
    \/ \E model \in MODELS, clip \in CLIPS, repo_id \in REPOS, subfolder \in SUBFOLDERS,
          filename \in FILENAMES, sm \in STRENGTHS, sc \in STRENGTHS, netok \in BOOLEAN,
          fail \in FAILURES :
          HFHubLoraLoader_load_lora(model, clip, repo_id, subfolder, filename, sm, sc,
                                    netok, fail # "load", fail # "apply")

SpecLoader == InitLoader /\ [][NextLoader]_vars

(***************************************************************************)
(* ImagePaddingAdvanced: an image is its height and width; a result also   *)
(* says at which row and column of it the source image starts.             *)
(***************************************************************************)
\* torch.nn.functional.pad(image, (0, 0, pad_left, pad_right, pad_top, pad_bottom), mode)
\* on a [batch, height, width, channels] tensor: the width grows by the second
\* pair, the height by the third; reflection needs every pad to be smaller
\* than the side it extends and raises otherwise
torch_pad(h, w, pad_left, pad_right, pad_top, pad_bottom, mode) ==
    IF mode = "reflect" /\ (pad_left >= w \/ pad_right >= w \/ pad_top >= h \/ pad_bottom >= h)
    THEN [outcome |-> "RuntimeError", same |-> FALSE, h |-> 0, w |-> 0, top |-> 0, left |-> 0]
    ELSE [outcome |-> "ok", same |-> FALSE, h |-> h + pad_top + pad_bottom,
          w |-> w + pad_left + pad_right, top |-> pad_top, left |-> pad_left]

\* ImagePaddingAdvanced.run(image, width, height, method)
ImagePaddingAdvanced_run(orig_height, orig_width, width, height, method) ==
    LET pad_width == IF width > orig_width THEN width - orig_width ELSE 0
        pad_height == IF height > orig_height THEN height - orig_height ELSE 0
        pad_top == pad_height \div 2
        pad_bottom == pad_height - pad_top
        pad_left == pad_width \div 2
        pad_right == pad_width - pad_left
    IN IF pad_height = 0 /\ pad_width = 0
       THEN [outcome |-> "ok", same |-> TRUE, h |-> orig_height, w |-> orig_width,
             top |-> 0, left |-> 0]
       ELSE IF method = "constant"
            THEN torch_pad(orig_height, orig_width, pad_left, pad_right, pad_top, pad_bottom,
                           "constant")
       ELSE IF method = "replicate"
            THEN torch_pad(orig_height, orig_width, pad_left, pad_right, pad_top, pad_bottom,
                           "replicate")
       ELSE torch_pad(orig_height, orig_width, pad_left, pad_right, pad_top, pad_bottom,
                      "reflect")

METHODS == {"constant", "replicate", "reflect"}

InitPad ==
    /\ ResolverInit({<<>>}, {<<>>}, {{}})
    /\ api_key = Unset
    /\ padIn \in [orig_height : 1..MaxDim, orig_width : 1..MaxDim, width : 1..MaxTarget,
                  height : 1..MaxTarget, method : METHODS]
    /\ padOut = NoPadOut
    /\ RampIdle
    /\ CropIdle
    /\ RaceIdle

\* the node runs on its arguments
Pad ==
    /\ padOut = NoPadOut
    /\ padOut' = ImagePaddingAdvanced_run(padIn.orig_height, padIn.orig_width, padIn.width,
                                          padIn.height, padIn.method)
    /\ UNCHANGED padIn
    /\ UNCHANGED resolverVars
    /\ UNCHANGED loaderVars
    /\ UNCHANGED <<rampVars, cropVars, raceVars>>

NextPad == Pad

SpecPad == InitPad /\ [][NextPad]_vars

(***************************************************************************)
(* FluxReduxFloatRamp: numbers are exact fractions num/den with den > 0    *)
(* (the rounding of floating point is left out).                           *)
(***************************************************************************)
MaxThreshold == 4  \* largest steps_threshold
MaxCalls == 6      \* most get_value invocations on the instance

RECURSIVE GCD(_, _)
GCD(a, b) == IF b = 0 THEN a ELSE GCD(b, a % b)

Abs(n) == IF n < 0 THEN -n ELSE n

\* the fraction n/d in lowest terms, d > 0
Frac(n, d) ==
    LET g == GCD(Abs(n), d)
    IN [num |-> n \div g, den |-> d \div g]

Whole(n) == [num |-> n, den |-> 1]

FAdd(x, y) == Frac(x.num * y.den + y.num * x.den, x.den * y.den)
FSub(x, y) == Frac(x.num * y.den - y.num * x.den, x.den * y.den)
FMul(x, y) == Frac(x.num * y.num, x.den * y.den)
\* x / y for y > 0
FDiv(x, y) == Frac(x.num * y.den, x.den * y.num)
FLess(x, y) == x.num * y.den < y.num * x.den

\* math.exp(x) for 0 <= x <= 1, by the first terms of its series
\* 1 + x + x^2/2 + x^3/6 + x^4/24: increasing, exp(0) = 1
math_exp(x) ==
    LET x2 == FMul(x, x)
        x3 == FMul(x2, x)
        x4 == FMul(x3, x)
    IN FAdd(FAdd(FAdd(FAdd(Whole(1), x), FMul(Frac(1, 2), x2)), FMul(Frac(1, 6), x3)),
            FMul(Frac(1, 24), x4))

ease_in(x) == FMul(x, x)

ease_out(x) == FSub(Whole(1), FMul(FSub(Whole(1), x), FSub(Whole(1), x)))

ease_in_out(x) == FMul(FMul(x, x), FSub(Whole(3), FMul(Whole(2), x)))

exponential(x) == FDiv(FSub(math_exp(x), Whole(1)), FSub(math_exp(Whole(1)), Whole(1)))

smoothstep(x) == FMul(FMul(x, x), FSub(Whole(3), FMul(Whole(2), x)))

bounce(x) ==
    LET n1 == Frac(121, 16)      \* 7.5625
        d1 == Frac(11, 4)        \* 2.75
        x2 == FSub(x, FDiv(Frac(3, 2), d1))
        x3 == FSub(x, FDiv(Frac(9, 4), d1))
        x4 == FSub(x, FDiv(Frac(21, 8), d1))
    IN IF FLess(x, FDiv(Whole(1), d1)) THEN FMul(n1, FMul(x, x))
       ELSE IF FLess(x, FDiv(Whole(2), d1))
            THEN FAdd(FMul(n1, FMul(x2, x2)), Frac(3, 4))
       ELSE IF FLess(x, FDiv(Frac(5, 2), d1))
            THEN FAdd(FMul(n1, FMul(x3, x3)), Frac(15, 16))
       ELSE FAdd(FMul(n1, FMul(x4, x4)), Frac(63, 64))

\* getattr(self, 'i', 0)
getattr_i(attr) == IF attr = Absent THEN 0 ELSE attr

\* FluxReduxFloatRamp.get_value(start, end, steps_threshold, ramp_type) on an
\* instance whose attribute i is attr; no attribute of the instance is assigned
get_value(attr, start, end, steps_threshold, ramp_type) ==
    LET current_step == getattr_i(attr) + 1
        progress == Frac(current_step, steps_threshold)
        modified_progress ==
            CASE ramp_type = "linear" -> progress
              [] ramp_type = "ease_in" -> ease_in(progress)
              [] ramp_type = "ease_out" -> ease_out(progress)
              [] ramp_type = "ease_in_out" -> ease_in_out(progress)
              [] ramp_type = "exponential" -> exponential(progress)
              [] ramp_type = "smoothstep" -> smoothstep(progress)
              [] ramp_type = "bounce" -> bounce(progress)
              [] OTHER -> progress
    IN IF current_step > steps_threshold
       THEN [current_step |-> current_step, value |-> Whole(end)]
       ELSE [current_step |-> current_step,
             value |-> FAdd(Whole(start), FMul(Whole(end - start), modified_progress))]

RAMP_TYPES == {"linear", "ease_in", "ease_out", "ease_in_out", "exponential", "smoothstep",
               "bounce"}
RAMP_ENDS == {-1, 0, 2}

InitRamp ==
    /\ ResolverInit({<<>>}, {<<>>}, {{}})
    /\ api_key = Unset
    /\ PadIdle
    /\ CropIdle
    /\ RaceIdle
    /\ rampIn \in [start : RAMP_ENDS, end : RAMP_ENDS, steps_threshold : 1..MaxThreshold,
                   ramp_type : RAMP_TYPES]
    /\ self_i = Absent
    /\ rampCalls = 0
    /\ rampOut = NoRampOut

\* the node is invoked once more, as the graph is run again
GetValue ==
    /\ rampCalls < MaxCalls
    /\ rampOut' = get_value(self_i, rampIn.start, rampIn.end, rampIn.steps_threshold,
                            rampIn.ramp_type)
    /\ rampCalls' = rampCalls + 1
    /\ UNCHANGED <<rampIn, self_i>>
    /\ UNCHANGED resolverVars
    /\ UNCHANGED loaderVars
    /\ UNCHANGED <<padVars, cropVars, raceVars>>

NextRamp == GetValue

SpecRamp == InitRamp /\ [][NextRamp]_vars

(***************************************************************************)
(* ImageToMultipleOf: a tensor is its shape; a result also says at which   *)
(* row and column of the source its window starts.                         *)
(***************************************************************************)
MaxSide == 6       \* largest image side (pixels)
MaxMultiple == 4   \* largest multiple_of

\* image.unsqueeze(0)
unsqueeze0(shape) == <<1>> \o shape

\* torch.nn.functional.interpolate(input, size=(h, w), mode="bilinear"): the
\* size must name every dimension after the first two, bilinear needs a 4-D
\* input, and the sizes must be positive
F_interpolate(shape, size) ==
    IF Len(size) # Len(shape) - 2 THEN [outcome |-> "ValueError", shape |-> <<>>]
    ELSE IF Len(shape) # 4 THEN [outcome |-> "NotImplementedError", shape |-> <<>>]
    ELSE IF \E k \in 1..Len(size) : size[k] <= 0 \/ shape[k + 2] <= 0
         THEN [outcome |-> "RuntimeError", shape |-> <<>>]
    ELSE [outcome |-> "ok", shape |-> SubSeq(shape, 1, 2) \o size]

\* image[:, top:bottom, left:right, :] for 0 <= top, 0 <= left
Slice(shape, top, bottom, left, right) ==
    LET clip(lo, hi, n) == IF hi > n THEN (IF lo > n THEN 0 ELSE n - lo)
                           ELSE IF hi > lo THEN hi - lo ELSE 0
    IN <<shape[1], clip(top, bottom, shape[2]), clip(left, right, shape[3]), shape[4]>>

\* ImageToMultipleOf.run(image, multiple_of, method) on an image of shape
\* [1, height, width, 3]
ImageToMultipleOf_run(height, width, multiple_of, method) ==
    LET image == <<1, height, width, 3>>
        new_height == height - (height % multiple_of)
        new_width == width - (width % multiple_of)
    IN IF method = "rescale"
       THEN LET r == F_interpolate(unsqueeze0(image), <<new_height, new_width>>)
            IN IF r.outcome = "ok"
               THEN [outcome |-> "ok", h |-> r.shape[3], w |-> r.shape[4], top |-> 0, left |-> 0]
               ELSE [outcome |-> r.outcome, h |-> 0, w |-> 0, top |-> 0, left |-> 0]
       ELSE LET top == (height - new_height) \div 2
                left == (width - new_width) \div 2
                bottom == top + new_height
                right == left + new_width
                out == Slice(image, top, bottom, left, right)
            IN [outcome |-> "ok", h |-> out[2], w |-> out[3], top |-> top, left |-> left]

CROP_METHODS == {"center crop", "rescale"}

InitCrop ==
    /\ ResolverInit({<<>>}, {<<>>}, {{}})
    /\ api_key = Unset
    /\ PadIdle
    /\ RampIdle
    /\ RaceIdle
    /\ cropIn \in [height : 1..MaxSide, width : 1..MaxSide, multiple_of : 1..MaxMultiple,
                   method : CROP_METHODS]
    /\ cropOut = NoCropOut

\* the node runs on its arguments
Crop ==
    /\ cropOut = NoCropOut
    /\ cropOut' = ImageToMultipleOf_run(cropIn.height, cropIn.width, cropIn.multiple_of,
                                        cropIn.method)
    /\ UNCHANGED cropIn
    /\ UNCHANGED resolverVars
    /\ UNCHANGED loaderVars
    /\ UNCHANGED <<padVars, rampVars, raceVars>>

NextCrop == Crop

SpecCrop == InitCrop /\ [][NextCrop]_vars

(***************************************************************************)
(* Properties of the resolver                                              *)
(***************************************************************************)
Called == lastCall.outcome # "none"
NoNetwork == lastCall.gets = <<>> /\ lastCall.hubcalls = <<>>
NoIO == NoNetwork /\ ~lastCall.made /\ ~lastCall.wrote

\* the text ends in the safe-tensor suffix, letter case ignored
EndsInSuffix(s) == s # <<>> /\ LowerTok(Last(s)) \in {".safetensors", "safetensors"}
\* the URL's path: the text before the first '?'
PathPart(u) == split(strip(u), "?")[1]

\* C1: resolving the same marketplace or generic reference a second time,
\* right after a call that succeeded, returns the same path and sends no request.
C1_SecondCallCached ==
    (/\ lastCall.branch \in {"civitai", "general"}
     /\ lastCall.url = prevCall.url
     /\ prevCall.outcome = "ok")
    => /\ lastCall.outcome = "ok"
       /\ lastCall.path = prevCall.path
       /\ lastCall.gets = <<>>

\* both calls succeeded on a marketplace reference, the second one from the cache
C1_Witness ==
    /\ lastCall.branch = "civitai"
    /\ lastCall.url = prevCall.url
    /\ prevCall.outcome = "ok"
    /\ lastCall.hit
    /\ lastCall.path = prevCall.path

WithoutDownloadMarker(u) ==
    IF endswith(u, <<"?", "download=true">>) THEN SubSeq(u, 1, Len(u) - 2) ELSE u

\* each strategy's rejected references
Rejected(branch, u) ==
    \/ branch = "general" /\ ~EndsInSuffix(PathPart(u))
    \/ branch = "hub" /\ ~EndsInSuffix(WithoutDownloadMarker(strip(u)))
    \/ branch = "civitai" /\ ~HasModelVersionId(u) /\ ~HasSafeTensor(u)

\* a marketplace reference that names modelVersionId without "=<id>"
NoVersionValue(branch, u) ==
    branch = "civitai" /\ HasModelVersionId(u) /\ ~contains(u, {"modelVersionId="})

MalformedURLS == HubShortURLS \cup {MvidNoValueUrl}

\* C3 as stated: an input that is empty after trimming, does not start with
\* http, or is not well-formed for its provider fails with ValueError and
\* nothing else, before any I/O.
C3_AsStated ==
    (Called /\ lastCall.url \in EmptyURLS \cup NonHttpURLS \cup MalformedURLS)
    => lastCall.outcome = "ValueError" /\ NoIO

\* C6 as stated: for every hub-shaped URL the hub download gets repo id
\* owner/repo, the final segment as filename, and the N intermediate segments
\* joined by '/' as subfolder (None when N = 0).
C6_AsStated ==
    \A owner \in {"o"}, m \in Markers, subs \in Subfolders :
        (Called /\ lastCall.url = HubShaped(owner, "r", m, subs))
        => /\ Len(lastCall.hubcalls) = 1
           /\ lastCall.hubcalls[1].repo_id = <<owner, "/", "r">>
           /\ lastCall.hubcalls[1].filename = <<"f", ".safetensors">>
           /\ lastCall.hubcalls[1].subfolder = IF subs = <<>> THEN None ELSE join([i \in 1..Len(subs) |-> <<subs[i]>>], "/")

\* C9: a marketplace or generic request answered with a status other than 200
\* fails with the download error and leaves no file at the cache path; only a
\* 200 response creates a cache entry; the next resolution of the reference
\* sends a request again.
C9_FailedDownloadLeavesNoEntry ==
    /\ (lastCall.gets # <<>> /\ lastCall.status # 200)
       => /\ lastCall.outcome = "Exception"
          /\ ~lastCall.wrote
          /\ lastCall.target \notin DOMAIN files
    /\ (lastCall.branch \in {"civitai", "general"} /\ lastCall.wrote)
       => lastCall.status = 200 /\ lastCall.target \in DOMAIN files
    /\ (prevCall.outcome = "Exception" /\ lastCall.url = prevCall.url)
       => Len(lastCall.gets) = 1

\* a failed download is followed by a resolution that requests again and succeeds
C9_Witness ==
    /\ prevCall.outcome = "Exception"
    /\ lastCall.url = prevCall.url
    /\ lastCall.status = 200
    /\ lastCall.outcome = "ok"
    /\ lastCall.target \in DOMAIN files

\* the host of an http URL: the text between the scheme and the first '/'
HostOf(u) == strip(u)[2]

\* the strategy the URL's host selects
StrategyOfHost(host) ==
    IF host = "huggingface.co" THEN "hub"
    ELSE IF host = "civitai.com" THEN "civitai"
    ELSE "general"

\* C14 as stated: an http URL is handled by the one strategy its host selects
\* (hub, marketplace, otherwise generic), whatever its path and query string
\* hold; the marketplace strategy caches under 'civitai', the generic one
\* under 'general' and rejects a path that does not end in the suffix.
C14_AsStated ==
    (Called /\ Len(strip(lastCall.url)) >= 2 /\ startswith_http(strip(lastCall.url)))
    => /\ lastCall.branch = StrategyOfHost(HostOf(lastCall.url))
       /\ lastCall.target # NoPath
          => lastCall.target[Len(lastCall.target) - 1]
                = <<IF HostOf(lastCall.url) = "civitai.com" THEN "civitai" ELSE "general">>
       /\ (StrategyOfHost(HostOf(lastCall.url)) = "general"
           /\ ~EndsInSuffix(PathPart(lastCall.url)))
          => lastCall.outcome = "ValueError"

(***************************************************************************)
(* Properties of the marketplace references                                *)
(***************************************************************************)
\* C4: a reference with modelVersionId=V and the canonical download URL of V
\* resolve to the same cache path, though the first has no "SafeTensor" marker
\* of its own.
C4_SameCachePath ==
    \A V \in Versions, b \in {<<>>, <<"x=", "1", "&">>}, a \in {<<>>, <<"&", "x=", "1">>} :
        LET m == MvidUrl(V, b, a)
            c == CanonUrl(V)
        IN (ref = m /\ ref2 = c)
           => /\ (firstPath[m] # NoPath /\ firstPath[c] # NoPath) => firstPath[m] = firstPath[c]
              /\ (lastCall.outcome = "ok" /\ firstPath[c] # NoPath) => lastCall.path = firstPath[c]
              /\ (lastCall.outcome = "ok" /\ firstPath[m] # NoPath) => lastCall.path = firstPath[m]

\* both forms of version 1 were resolved, the modelVersionId form with a
\* further query parameter after the id
C4_Witness ==
    /\ ref = MvidUrl(<<"1">>, <<>>, <<"&", "x=", "1">>)
    /\ ref2 = CanonUrl(<<"1">>)
    /\ firstPath[ref] # NoPath
    /\ firstPath[ref2] # NoPath
    /\ ~HasSafeTensor(ref)

\* C5: the cache path of a marketplace reference does not depend on the API
\* key: every resolution returns the path of the first one whatever the key is
\* by then, the key is no part of the path, and a file cached under one key is
\* reused under another without a request.
C5_KeyIndependentPath ==
    (lastCall.outcome = "ok" /\ lastCall.branch = "civitai")
    => /\ lastCall.path = firstPath[lastCall.url]
       /\ ~contains(Last(lastCall.path), {"&token="})
       /\ lastCall.rekeyed => lastCall.gets = <<>> /\ lastCall.hit

\* a reference first resolved without a key is resolved again with a key set
C5_Witness ==
    /\ lastCall.outcome = "ok"
    /\ lastCall.branch = "civitai"
    /\ lastCall.rekeyed
    /\ firstKey[lastCall.url] \in {Unset, " "}
    /\ api_key \in {"k1", "k2"}
    /\ lastCall.hit

(***************************************************************************)
(* Properties of the cache entries                                         *)
(***************************************************************************)
\* p is a file of the marketplace or the generic cache subdirectory
IsCacheEntry(p) == Len(p) >= 2 /\ p[Len(p) - 1] \in {<<"civitai">>, <<"general">>}

\* every cache entry that exists keeps its content in the step
FilesKept ==
    \A p \in DOMAIN files : IsCacheEntry(p) => p \in DOMAIN files' /\ files'[p] = files[p]

\* the latest call found a file at its cache path and did not write it
FoundEntry ==
    /\ lastCall.branch \in {"civitai", "general"}
    /\ lastCall.target \in DOMAIN files
    /\ ~lastCall.wrote

\* C12: no resolution deletes or changes an existing file; a marketplace or
\* generic call that finds a file at its cache path, whatever the content
\* (zero length and partial included), returns that path and sends no request,
\* and a call that writes has written a path at which nothing existed.
C12_CacheEntriesImmutable ==
    /\ [](FoundEntry => /\ lastCall.outcome = "ok"
                        /\ lastCall.path = lastCall.target
                        /\ lastCall.gets = <<>>
                        /\ lastCall.hit)
    /\ [][FilesKept]_vars

\* a zero-length file left by an earlier run was returned from the cache,
\* after a resolution of another reference downloaded its own file
C12_Witness ==
    /\ lastCall.branch = "general"
    /\ lastCall.hit
    /\ files[lastCall.path] = ""
    /\ lastCall.gets = <<>>
    /\ prevCall.outcome = "ok"
    /\ prevCall.url # lastCall.url
    /\ prevCall.path # lastCall.path
    /\ prevCall.path \in DOMAIN files

(***************************************************************************)
(* Properties of concurrent callers                                        *)
(***************************************************************************)
\* caller c returns in the step
Returns(c) == pc[c] # "returned" /\ pc'[c] = "returned"

\* every caller has returned or raised
AllFinished == \A c \in Callers : pc[c] \in {"returned", "FileExistsError", "Exception"}

\* C13 as stated: whenever a caller returns, the file at the returned path
\* exists and holds a complete response body at that moment; and when every
\* request was answered with the body, every interleaving ends with both
\* callers having returned the same path, whose file holds the complete body
\* of one of the responses.
C13_AsStated ==
    /\ [][\A c \in Callers :
              Returns(c) => /\ local'[c].result \in DOMAIN files'
                            /\ files'[local'[c].result] \in BODIES]_vars
    /\ []((AllFinished /\ \A c \in Callers : pc[c] # "Exception")
          => /\ \A c \in Callers : pc[c] = "returned"
             /\ \A c1, c2 \in Callers : local[c1].result = local[c2].result
             /\ \A c \in Callers : /\ local[c].result \in DOMAIN files
                                     /\ files[local[c].result] \in BODIES)

(***************************************************************************)
(* Properties of the loader nodes                                          *)
(***************************************************************************)
\* C7: a loader node holds a payload exactly when it holds a path, and the
\* payload is the one loaded from that path, also after an invocation that
\* raised; an invocation that resolves to the held path reads nothing from disk
\* and keeps the held payload; one that resolves to another path has dropped
\* the held payload before it loads the new one.
C7_OnePayloadOfHeldPath ==
    /\ \A n \in Nodes :
          /\ loaded_lora[n] = NonePayload <=> loaded_lora_path[n] = NoPath
          /\ loaded_lora[n] # NonePayload
             => /\ loaded_lora_path[n] \in DOMAIN files
                /\ loaded_lora[n] = PayloadOf(loaded_lora_path[n], files[loaded_lora_path[n]])
    /\ lastLoad.held = "same" => lastLoad.reads = <<>> /\ ~lastLoad.changed
    /\ (lastLoad.held = "other" /\ lastLoad.outcome = "LoadError")
       => loaded_lora[lastLoad.node] = NonePayload
    /\ (lastLoad.held \in {"other", "none"} /\ lastLoad.outcome # "LoadError")
       => lastLoad.reads = <<loaded_lora_path[lastLoad.node]>>

\* an invocation for another path than the held one raised while loading
C7_Witness ==
    /\ lastLoad.held = "other"
    /\ lastLoad.outcome = "LoadError"
    /\ loaded_lora[lastLoad.node] = NonePayload
    /\ loaded_lora_path[lastLoad.node] = NoPath

\* C8: with both strengths 0 load_lora returns the model and clip it was
\* given and does nothing else: no validation of the reference, no download,
\* no load, and the held payload and path stay as they were.
C8_NoOpShortCircuits ==
    (lastLoad.node # "none" /\ lastLoad.strength_model = 0 /\ lastLoad.strength_clip = 0)
    => /\ lastLoad.outcome = "ok"
       /\ lastLoad.out = [model |-> <<lastLoad.model>>, clip |-> <<lastLoad.clip>>]
       /\ ~lastLoad.resolved
       /\ lastLoad.reads = <<>>
       /\ ~lastLoad.touched
       /\ ~lastLoad.changed

\* a no-op invocation with a reference that would be rejected, on a node that
\* holds a payload
C8_Witness ==
    /\ lastLoad.node = "url"
    /\ lastLoad.strength_model = 0
    /\ lastLoad.strength_clip = 0
    /\ lastLoad.url = GenericUrl(<<"f", ".bin">>, <<>>)
    /\ lastLoad.outcome = "ok"
    /\ loaded_lora["url"] # NonePayload

(***************************************************************************)
(* Properties of the padding node                                          *)
(***************************************************************************)
Padded == padOut.outcome # "none"

\* C10 as stated: a target no larger than the source on both axes returns the
\* source image itself; otherwise the node returns an image in which no axis
\* is shrunk, every axis with a larger target has exactly the requested size,
\* and the source starts at floor(pad/2) on that axis, the rest of the pad
\* following it.
C10_AsStated ==
    Padded
    => /\ padOut.outcome = "ok"
       /\ (padIn.width <= padIn.orig_width /\ padIn.height <= padIn.orig_height)
          => padOut.same /\ padOut.w = padIn.orig_width /\ padOut.h = padIn.orig_height
       /\ padOut.w >= padIn.orig_width /\ padOut.h >= padIn.orig_height
       /\ padIn.width > padIn.orig_width
          => /\ padOut.w = padIn.width
             /\ padOut.left = (padIn.width - padIn.orig_width) \div 2
       /\ padIn.height > padIn.orig_height
          => /\ padOut.h = padIn.height
             /\ padOut.top = (padIn.height - padIn.orig_height) \div 2

(***************************************************************************)
(* Properties of the ramp node                                             *)
(***************************************************************************)
\* the curve types that rise monotonically from 0 to 1
MonotonicTypes == RAMP_TYPES \ {"bounce"}

\* v lies strictly between the whole numbers a and b
StrictlyBetween(v, a, b) ==
    \/ FLess(Whole(a), v) /\ FLess(v, Whole(b))
    \/ FLess(Whole(b), v) /\ FLess(v, Whole(a))

\* C11 as stated, for thresholds of two steps or more: with start # end the
\* first invocation (step 0) of a monotonic curve returns a value strictly
\* between start and end, and the step index advances with the invocations of
\* the instance, so that every invocation at step >= threshold (the
\* invocations after the first steps_threshold ones) returns exactly end.
C11_AsStated ==
    (rampIn.start # rampIn.end /\ rampIn.steps_threshold >= 2)
    => /\ (rampCalls = 1 /\ rampIn.ramp_type \in MonotonicTypes)
          => StrictlyBetween(rampOut.value, rampIn.start, rampIn.end)
       /\ rampCalls > rampIn.steps_threshold => rampOut.value = Whole(rampIn.end)

(***************************************************************************)
(* Properties of the multiple-of node                                      *)
(***************************************************************************)
\* d reduced to new as claimed: the nearest lower multiple of m, not empty
ReducedTo(d, m, new) ==
    /\ new = d - (d % m)
    /\ new % m = 0
    /\ d - m < new /\ new <= d
    /\ new >= 1

\* the window of length new starting at first is centred in 0..d-1, the odd
\* remainder pixel cut from the trailing side, and lies within the source
CentredIn(d, new, first) ==
    /\ first = (d - new) \div 2
    /\ first >= 0 /\ first + new <= d
    /\ (d - new) - first \in {first, first + 1}

\* C15 as stated, for the center-crop method: for every side d >= 1 and
\* factor m >= 1 the result has each side reduced to d - (d mod m), a multiple
\* of m with d - m < new_d <= d, is a non-empty image, and its window starts
\* at floor((d - new_d)/2) within the source.
C15_AsStated ==
    (cropOut.outcome # "none" /\ cropIn.method = "center crop")
    => /\ cropOut.outcome = "ok"
       /\ ReducedTo(cropIn.height, cropIn.multiple_of, cropOut.h)
       /\ ReducedTo(cropIn.width, cropIn.multiple_of, cropOut.w)
       /\ CentredIn(cropIn.height, cropOut.h, cropOut.top)
       /\ CentredIn(cropIn.width, cropOut.w, cropOut.left)

====
